---- MODULE Spec2Model ----
(***************************************************************************)
(* Model of two programs of the repository:                                *)
(*   - tools/please_pex/pex_run.py: the bootstrap of a packaged archive    *)
(*     (__main__, run, add_module_dir_to_sys_path);                        *)
(*   - third_party/python/find_wheels.py: the wheel resolver (find_wheels) *)
(* Each program has its own specification (Spec, SpecWheels); the          *)
(* variables of the other program stay at their initial value.             *)
(***************************************************************************)
EXTENDS Integers, Sequences, FiniteSets, TLC

VARIABLES
    \* ---- pex_run.py ----
    pc,          \* position of the process in __main__ / run()
    ZIP_SAFE,    \* the archive's zip-safety flag (baked-in configuration)
    MODULE_DIR,  \* the archive's relocation directory, "" when there is none
    environ,     \* names of the environment variables that are set
    sys_path,    \* sys.path: sequence of paths, a path is a sequence of components
    meta_path,   \* sys.meta_path: sequence of finder names
    fuse,        \* mount handle returned by setup_fuse: none | held | released
    tmpdir,      \* temp directory of explode_zip: none | held | released
    profiler,    \* profiling scope: off | active | closed
    exc,         \* exception propagating out of run(): none | OSError | Error
    result,      \* value returned by run(): <<>> (nothing yet) or <<r>>
    exit_code,   \* code the process exits with: <<>> while it runs, else <<c>>
    outcome,     \* Running | Completed | Failed (how the process ended)
    entryCalls,  \* history: one record per invocation of interact(main)
    trace,       \* history: the calls made so far, in order
    sys_path0,   \* history: sys.path as it was at start-up
    \* ---- find_wheels.py ----
    fw_pc,       \* position of the find_wheels generator
    package_spec,\* the argument of find_wheels, a sequence of characters
    platform,    \* sys.platform, a sequence of characters
    net,         \* what the network answers: [ok, status, text]
    response,    \* the response object once fetched: <<>> or <<[status, text]>>
    matches,     \* link_re.findall(response.text), once computed
    idx,         \* index of the next match to yield
    yielded,     \* the URLs yielded so far
    fw_error     \* error raised out of the generator: none | ConnectionError | HTTPError

run_vars == <<pc, ZIP_SAFE, MODULE_DIR, environ, sys_path, meta_path, fuse, tmpdir,
              profiler, exc, result, exit_code, outcome, entryCalls, trace, sys_path0>>
fw_vars == <<fw_pc, package_spec, platform, net, response, matches, idx, yielded, fw_error>>
vars == <<run_vars, fw_vars>>

(***************************************************************************)
(* Bounds of the model.                                                    *)
(***************************************************************************)
\* entry point results range over 0..MaxResult
MaxResult == 2
\* number of entries of sys.path after the archive's root entry at start-up
MaxRest == 1

(***************************************************************************)
(* pex_run.py                                                              *)
(***************************************************************************)
\* the archive's own entry, sys.path[0] at start-up
Root == <<"app.pex">>
\* other directories the interpreter may have put on sys.path
SitePaths == {<<"usr", "lib", "python">>, <<"usr", "lib", "site-packages">>, <<"home", "lib">>}
\* finders the interpreter installs by default
DefaultMetaPath == <<"BuiltinImporter", "PathFinder">>

\* os.path.join(base, name) for a relative, non-empty name
Join(base, name) == Append(base, name)

\* path[:1] + [entry] + path[2:]: the slice after the new entry starts one too far
InsertAfterFirstMutDrop(path, entry) ==
    SubSeq(path, 1, 1) \o <<entry>> \o SubSeq(path, 3, Len(path))

\* path[:1] + [entry] + path[1:]
InsertAfterFirst(path, entry) ==
    SubSeq(path, 1, 1) \o <<entry>> \o SubSeq(path, 2, Len(path))

\* what a call of interact(main) can do: return a result or raise
EntryOutcomes ==
    {[kind |-> "return", code |-> r, err |-> "none"] : r \in 0..MaxResult}
    \cup {[kind |-> "raise", code |-> 0, err |-> e] : e \in {"OSError", "Error"}}

\* the mode the process is in when interact(main) is called from position p
ModeAt(p) ==
    CASE p = "interact_mounted" -> "Mounted"
      [] p = "interact_exploded" -> "Exploded"
      [] p = "interact_inplace" -> "InPlace"
      [] OTHER -> "None"

InitRun ==
    /\ pc = "main"
    /\ ZIP_SAFE \in BOOLEAN
    /\ MODULE_DIR \in {"", "third_party"}
    /\ environ \in {{}, {"PEX_PROFILE_FILENAME"}}
    /\ \E n \in 0..MaxRest : \E rest \in [1..n -> SitePaths] : sys_path = <<Root>> \o rest
    /\ meta_path = DefaultMetaPath
    /\ fuse = "none"
    /\ tmpdir = "none"
    /\ profiler = "off"
    /\ exc = "none"
    /\ result = <<>>
    /\ exit_code = <<>>
    /\ outcome = "Running"
    /\ entryCalls = <<>>
    /\ trace = <<>>
    /\ sys_path0 = sys_path

\* __main__, lines 28-32: enter the profiling scope when the variable is set, call run()
Main ==
    /\ pc = "main"
    /\ profiler' = IF "PEX_PROFILE_FILENAME" \in environ THEN "active" ELSE "off"
    /\ pc' = "run"
    /\ UNCHANGED <<fw_vars, sys_path0>>
    /\ UNCHANGED <<ZIP_SAFE, MODULE_DIR, environ, sys_path, meta_path, fuse, tmpdir,
                   exc, result, exit_code, outcome, entryCalls, trace>>

\* run(), lines 10-11 and 21: insert .bootstrap after the first entry, branch on ZIP_SAFE
RunStartMutFlipped ==
    /\ pc = "run"
    /\ sys_path' = InsertAfterFirst(sys_path, Join(sys_path[1], ".bootstrap"))
    /\ trace' = Append(trace, "bootstrap_path")
    /\ pc' = IF ZIP_SAFE THEN "setup_fuse" ELSE "inplace_add"
    /\ UNCHANGED <<fw_vars, sys_path0>>
    /\ UNCHANGED <<ZIP_SAFE, MODULE_DIR, environ, meta_path, fuse, tmpdir, profiler,
                   exc, result, exit_code, outcome, entryCalls>>

RunStart ==
    /\ pc = "run"
    /\ sys_path' = InsertAfterFirst(sys_path, Join(sys_path[1], ".bootstrap"))
    /\ trace' = Append(trace, "bootstrap_path")
    /\ pc' = IF ~ZIP_SAFE THEN "setup_fuse" ELSE "inplace_add"
    /\ UNCHANGED <<fw_vars, sys_path0>>
    /\ UNCHANGED <<ZIP_SAFE, MODULE_DIR, environ, meta_path, fuse, tmpdir, profiler,
                   exc, result, exit_code, outcome, entryCalls>>

\* the mount capability: acquire() returns a handle or raises
SetupFuseOutcomes == {"ok", "OSError", "Error"}

\* run(), line 13 with the try/except of lines 12 and 15: fuse = setup_fuse()
SetupFuse ==
    /\ pc = "setup_fuse"
    /\ \E o \in SetupFuseOutcomes :
        /\ trace' = Append(trace, IF o = "ok" THEN "setup_fuse" ELSE "setup_fuse_failed")
        /\ fuse' = IF o = "ok" THEN "held" ELSE fuse
        /\ exc' = IF o = "Error" THEN "Error" ELSE exc
        /\ pc' = CASE o = "ok" -> "interact_mounted"
                   [] o = "OSError" -> "except"
                   [] OTHER -> "run_exit"
    /\ UNCHANGED <<fw_vars, sys_path0>>
    /\ UNCHANGED <<ZIP_SAFE, MODULE_DIR, environ, sys_path, meta_path, tmpdir, profiler,
                   result, exit_code, outcome, entryCalls>>

\* one invocation of interact(main) and where control goes next:
\* retpc after a return, oserrpc after an OSError, errpc after any other error
Interact(retpc, oserrpc, errpc) ==
    \E o \in EntryOutcomes :
        /\ entryCalls' = Append(entryCalls,
               [mode |-> ModeAt(pc), path |-> sys_path, hooks |-> meta_path, out |-> o])
        /\ trace' = Append(trace, "interact")
        /\ result' = IF o.kind = "return" THEN <<o.code>> ELSE result
        /\ exc' = IF o.kind = "raise" /\ ~(o.err = "OSError" /\ oserrpc = "except")
                  THEN o.err ELSE exc
        /\ pc' = CASE o.kind = "return" -> retpc
                   [] o.err = "OSError" -> oserrpc
                   [] OTHER -> errpc

\* run(), line 14 inside the try of line 12: return interact(main)
InteractMounted ==
    /\ pc = "interact_mounted"
    /\ Interact("run_exit", "except", "run_exit")
    /\ UNCHANGED <<fw_vars, sys_path0>>
    /\ UNCHANGED <<ZIP_SAFE, MODULE_DIR, environ, sys_path, meta_path, fuse, tmpdir,
                   profiler, exit_code, outcome>>

\* the handler falls back to running in place instead of exploding
ExceptOSErrorMutInPlace ==
    /\ pc = "except"
    /\ trace' = Append(trace, "warning")
    /\ pc' = "inplace_add"
    /\ UNCHANGED <<fw_vars, sys_path0>>
    /\ UNCHANGED <<ZIP_SAFE, MODULE_DIR, environ, sys_path, meta_path, fuse, tmpdir,
                   profiler, exc, result, exit_code, outcome, entryCalls>>

\* the handler tries the mount again instead of exploding
ExceptOSErrorMutRetry ==
    /\ pc = "except"
    /\ trace' = Append(trace, "warning")
    /\ pc' = "setup_fuse"
    /\ UNCHANGED <<fw_vars, sys_path0>>
    /\ UNCHANGED <<ZIP_SAFE, MODULE_DIR, environ, sys_path, meta_path, fuse, tmpdir,
                   profiler, exc, result, exit_code, outcome, entryCalls>>

\* run(), lines 15-17: the OSError is logged as a mount failure and dropped
ExceptOSError ==
    /\ pc = "except"
    /\ trace' = Append(trace, "warning")
    /\ pc' = "explode"
    /\ UNCHANGED <<fw_vars, sys_path0>>
    /\ UNCHANGED <<ZIP_SAFE, MODULE_DIR, environ, sys_path, meta_path, fuse, tmpdir,
                   profiler, exc, result, exit_code, outcome, entryCalls>>

\* __enter__ of the context manager of explode_zip: a temp directory, or an error
ExplodeEnter(ok) == IF ok THEN "held" ELSE "none"

\* __exit__ of the context manager of explode_zip: the temp directory is removed
ExplodeRelease(t) == IF t = "held" THEN "released" ELSE t

\* run(), line 18: with explode_zip()():
ExplodeZip ==
    /\ pc = "explode"
    /\ \E ok \in BOOLEAN :
        /\ tmpdir' = ExplodeEnter(ok)
        /\ trace' = Append(trace, IF ok THEN "explode_zip" ELSE "explode_zip_failed")
        /\ exc' = IF ok THEN exc ELSE "Error"
        /\ pc' = IF ok THEN "exploded_add" ELSE "run_exit"
    /\ UNCHANGED <<fw_vars, sys_path0>>
    /\ UNCHANGED <<ZIP_SAFE, MODULE_DIR, environ, sys_path, meta_path, fuse, profiler,
                   result, exit_code, outcome, entryCalls>>

\* add_module_dir_to_sys_path, line 4: the new value of sys.path
AddModuleDirPathMutPrepend(path, dirname) ==
    IF dirname # "" THEN <<Join(path[1], dirname)>> \o path ELSE path

add_module_dir_sys_path(path, dirname) ==
    IF dirname # "" THEN InsertAfterFirst(path, Join(path[1], dirname)) ELSE path

\* add_module_dir_to_sys_path, line 5: the new value of sys.meta_path
add_module_dir_meta_path(hooks, dirname) ==
    IF dirname # "" THEN <<"ModuleDirImport">> \o hooks ELSE hooks

\* add_module_dir_to_sys_path(MODULE_DIR), lines 1-5; constructing the hook may fail,
\* after sys.path has been assigned
add_module_dir_to_sys_path(okpc, failpc) ==
    /\ sys_path' = add_module_dir_sys_path(sys_path, MODULE_DIR)
    /\ \E ok \in (IF MODULE_DIR # "" THEN BOOLEAN ELSE {TRUE}) :
        /\ meta_path' = IF ok THEN add_module_dir_meta_path(meta_path, MODULE_DIR)
                        ELSE meta_path
        /\ trace' = Append(trace, IF ok THEN "add_module_dir" ELSE "add_module_dir_failed")
        /\ exc' = IF ok THEN exc ELSE "Error"
        /\ pc' = IF ok THEN okpc ELSE failpc

\* run(), line 19
ExplodedAddModuleDir ==
    /\ pc = "exploded_add"
    /\ add_module_dir_to_sys_path("interact_exploded", "with_exit")
    /\ UNCHANGED <<fw_vars, sys_path0>>
    /\ UNCHANGED <<ZIP_SAFE, MODULE_DIR, environ, fuse, tmpdir, profiler, result,
                   exit_code, outcome, entryCalls>>

\* run(), line 20: return interact(main), inside the with block
InteractExploded ==
    /\ pc = "interact_exploded"
    /\ Interact("with_exit", "with_exit", "with_exit")
    /\ UNCHANGED <<fw_vars, sys_path0>>
    /\ UNCHANGED <<ZIP_SAFE, MODULE_DIR, environ, sys_path, meta_path, fuse, tmpdir,
                   profiler, exit_code, outcome>>

\* run(), line 18: leaving the with block, by return or by exception
ExplodeExit ==
    /\ pc = "with_exit"
    /\ tmpdir' = ExplodeRelease(tmpdir)
    /\ trace' = Append(trace, "explode_exit")
    /\ pc' = "run_exit"
    /\ UNCHANGED <<fw_vars, sys_path0>>
    /\ UNCHANGED <<ZIP_SAFE, MODULE_DIR, environ, sys_path, meta_path, fuse, profiler,
                   exc, result, exit_code, outcome, entryCalls>>

\* run(), line 22
InPlaceAddModuleDir ==
    /\ pc = "inplace_add"
    /\ add_module_dir_to_sys_path("inplace_so", "run_exit")
    /\ UNCHANGED <<fw_vars, sys_path0>>
    /\ UNCHANGED <<ZIP_SAFE, MODULE_DIR, environ, fuse, tmpdir, profiler, result,
                   exit_code, outcome, entryCalls>>

\* sys.meta_path.insert(0, SoImport()) instead of append
InPlaceSoImportMutFront ==
    /\ pc = "inplace_so"
    /\ \E ok \in BOOLEAN :
        /\ meta_path' = IF ok THEN <<"SoImport">> \o meta_path ELSE meta_path
        /\ trace' = Append(trace, IF ok THEN "so_import" ELSE "so_import_failed")
        /\ exc' = IF ok THEN exc ELSE "Error"
        /\ pc' = IF ok THEN "interact_inplace" ELSE "run_exit"
    /\ UNCHANGED <<fw_vars, sys_path0>>
    /\ UNCHANGED <<ZIP_SAFE, MODULE_DIR, environ, sys_path, fuse, tmpdir, profiler,
                   result, exit_code, outcome, entryCalls>>

\* run(), line 23: sys.meta_path.append(SoImport()); constructing the hook may fail
InPlaceSoImport ==
    /\ pc = "inplace_so"
    /\ \E ok \in BOOLEAN :
        /\ meta_path' = IF ok THEN Append(meta_path, "SoImport") ELSE meta_path
        /\ trace' = Append(trace, IF ok THEN "so_import" ELSE "so_import_failed")
        /\ exc' = IF ok THEN exc ELSE "Error"
        /\ pc' = IF ok THEN "interact_inplace" ELSE "run_exit"
    /\ UNCHANGED <<fw_vars, sys_path0>>
    /\ UNCHANGED <<ZIP_SAFE, MODULE_DIR, environ, sys_path, fuse, tmpdir, profiler,
                   result, exit_code, outcome, entryCalls>>

\* run(), line 24
InteractInPlace ==
    /\ pc = "interact_inplace"
    /\ Interact("run_exit", "run_exit", "run_exit")
    /\ UNCHANGED <<fw_vars, sys_path0>>
    /\ UNCHANGED <<ZIP_SAFE, MODULE_DIR, environ, sys_path, meta_path, fuse, tmpdir,
                   profiler, exit_code, outcome>>

\* __exit__ of the context manager of profile: the statistics are written, the scope ends
ProfileTeardown(p) == IF p = "active" THEN "closed" ELSE p

\* __main__, lines 29-32: run() has returned or raised; the with block, if any, is left
RunExitMutNoTeardownOnError ==
    /\ pc = "run_exit"
    /\ profiler' = IF exc = "none" THEN ProfileTeardown(profiler) ELSE profiler
    /\ pc' = IF exc = "none" THEN "sys_exit" ELSE "uncaught"
    /\ UNCHANGED <<fw_vars, sys_path0>>
    /\ UNCHANGED <<ZIP_SAFE, MODULE_DIR, environ, sys_path, meta_path, fuse, tmpdir,
                   exc, result, exit_code, outcome, entryCalls, trace>>

RunExit ==
    /\ pc = "run_exit"
    /\ profiler' = ProfileTeardown(profiler)
    /\ pc' = IF exc = "none" THEN "sys_exit" ELSE "uncaught"
    /\ UNCHANGED <<fw_vars, sys_path0>>
    /\ UNCHANGED <<ZIP_SAFE, MODULE_DIR, environ, sys_path, meta_path, fuse, tmpdir,
                   exc, result, exit_code, outcome, entryCalls, trace>>

\* __main__, line 33: sys.exit(result)
SysExitMutZero ==
    /\ pc = "sys_exit"
    /\ exit_code' = <<0>>
    /\ outcome' = "Completed"
    /\ pc' = "done"
    /\ UNCHANGED <<fw_vars, sys_path0>>
    /\ UNCHANGED <<ZIP_SAFE, MODULE_DIR, environ, sys_path, meta_path, fuse, tmpdir,
                   profiler, exc, result, entryCalls, trace>>

SysExit ==
    /\ pc = "sys_exit"
    /\ exit_code' = result
    /\ outcome' = "Completed"
    /\ pc' = "done"
    /\ UNCHANGED <<fw_vars, sys_path0>>
    /\ UNCHANGED <<ZIP_SAFE, MODULE_DIR, environ, sys_path, meta_path, fuse, tmpdir,
                   profiler, exc, result, entryCalls, trace>>

\* __main__: an exception leaves the module; the interpreter exits with status 1
Uncaught ==
    /\ pc = "uncaught"
    /\ exit_code' = <<1>>
    /\ outcome' = "Failed"
    /\ pc' = "done"
    /\ UNCHANGED <<fw_vars, sys_path0>>
    /\ UNCHANGED <<ZIP_SAFE, MODULE_DIR, environ, sys_path, meta_path, fuse, tmpdir,
                   profiler, exc, result, entryCalls, trace>>

NextRun ==
    \/ Main \/ RunStart \/ SetupFuse \/ InteractMounted \/ ExceptOSError
    \/ ExplodeZip \/ ExplodedAddModuleDir \/ InteractExploded \/ ExplodeExit
    \/ InPlaceAddModuleDir \/ InPlaceSoImport \/ InteractInPlace
    \/ RunExit \/ SysExit \/ Uncaught

(***************************************************************************)
(* find_wheels.py                                                          *)
(* Strings are sequences of one-character strings, so that the regular     *)
(* expression of line 33 is matched character by character.                *)
(***************************************************************************)
\* number of anchors of an index page
MaxAnchors == 2

\* line 19
PIP_ARCHITECTURES ==
    << <<"c", "p", "2", "7", "-", "c", "p", "2", "7", "m">>,
       <<"c", "p", "3", "4", "-", "c", "p", "3", "4", "m">>,
       <<"c", "p", "3", "5", "-", "c", "p", "3", "5", "m">>,
       <<"c", "p", "3", "6", "-", "c", "p", "3", "6", "m">> >>

\* line 20 with its use on line 32: PIP_PLATFORMS.get(key, default)
PIP_PLATFORMS_get(key, default) ==
    CASE key = <<"d", "a", "r", "w", "i", "n">> -> <<"m", "a", "c", "o", "s", "x">>
      [] key = <<"l", "i", "n", "u", "x">> -> <<"m", "a", "n", "y", "l", "i", "n", "u", "x", "1">>
      [] OTHER -> default

\* line 21
PIP_URL_BASE ==
    <<"h", "t", "t", "p", "s", ":", "/", "/", "p", "y", "p", "i", ".", "p", "y", "t", "h",
      "o", "n", ".", "o", "r", "g", "/", "s", "i", "m", "p", "l", "e", "/">>

\* the architecture markers written into the pattern of line 33
ARCH_MARKERS ==
    << <<"x", "8", "6", "_", "6", "4">>, <<"a", "m", "d", "6", "4">>,
       <<"i", "n", "t", "e", "l">> >>

\* index of the first "==" of s, 0 when there is none
FindEqEq(s) ==
    LET found == {i \in 1..(Len(s) - 1) : s[i] = "=" /\ s[i + 1] = "="}
    IN IF found = {} THEN 0 ELSE CHOOSE i \in found : \A j \in found : i <= j

\* line 25: package_spec.partition('=='), its first and third parts
Partition(s) ==
    LET i == FindEqEq(s)
    IN IF i = 0 THEN [name |-> s, version |-> <<>>]
       ELSE [name |-> SubSeq(s, 1, i - 1), version |-> SubSeq(s, i + 2, Len(s))]

(* The one-character nodes of a compiled pattern. *)
Lit(c) == [t |-> "lit", c |-> c]
Dot == [t |-> "dot", c |-> ""]

\* a string written into the pattern by %s: "." is the any-character node, every
\* other character of the modelled alphabet stands for itself
PatternOf(s) == [i \in 1..Len(s) |-> IF s[i] = "." THEN Dot ELSE Lit(s[i])]

\* line 33: the compiled pattern, its parts in order
\*   <a href="([^"]+NAME-VERSION-(?:ARCHS)-PLAT[^"]+(?:x86_64|amd64|intel).whl)(?:#.*)"
\*   open     ([^"]+stem        (?:archs)plat [^"]+(?:markers)            ext )(?:frag.*)close
\* group 1 runs from the end of open to the end of ext
link_re(name, ver, archs, plat) ==
    [open |-> PatternOf(<<"<", "a", " ", "h", "r", "e", "f", "=", "\"">>),
     stem |-> PatternOf(name) \o <<Lit("-")>> \o PatternOf(ver) \o <<Lit("-")>>,
     archs |-> archs,
     plat |-> <<Lit("-")>> \o PatternOf(plat),
     markers |-> ARCH_MARKERS,
     ext |-> <<Dot, Lit("w"), Lit("h"), Lit("l")>>,
     frag |-> <<Lit("#")>>,
     close |-> <<Lit("\"")>>]

\* whether lit occurs in text at position pos
StartsWith(text, pos, lit) ==
    /\ pos + Len(lit) - 1 <= Len(text)
    /\ \A i \in 1..Len(lit) : text[pos + i - 1] = lit[i]

\* whether node n accepts the character c: a literal accepts itself, . accepts
\* everything but a line break
Accepts(n, c) == IF n.t = "lit" THEN c = n.c ELSE c # "\n"

\* whether the one-character nodes match text at position pos, one character each
MatchesRun(nodes, text, pos) ==
    /\ pos + Len(nodes) - 1 <= Len(text)
    /\ \A i \in 1..Len(nodes) : Accepts(nodes[i], text[pos + i - 1])

\* number of consecutive characters from pos that are in the class:
\* "nq" is [^"] (a line break included), "dot" is . (no line break)
RunLen(text, pos, class) ==
    LET stops == {i \in pos..Len(text) :
                     \/ class = "nq" /\ text[i] = "\""
                     \/ class = "dot" /\ text[i] = "\n"}
    IN IF stops = {} THEN Len(text) - pos + 1
       ELSE (CHOOSE i \in stops : \A j \in stops : i <= j) - pos

\* x comes before y, or is y, in the order of the keys, first component first
LexLeq(x, y) ==
    \E i \in 1..(Len(x) + 1) :
        /\ \A j \in 1..(i - 1) : x[j] = y[j]
        /\ i = Len(x) + 1 \/ x[i] < y[i]

NoMatch == <<>>

\* The ways the pattern matches text at pos. A way is <<e1, a, e2, b, e3>>, the
\* choices of the pattern's five choice points in the order the matcher meets them:
\*   e1: the position after the first [^"]+      a: the alternative of archs taken
\*   e2: the position after the second [^"]+     b: the alternative of markers taken
\*   e3: the position after .*
Ways(re, text, pos) ==
    LET q1 == pos + Len(re.open)
        S1 == {e1 \in (q1 + 1)..(q1 + RunLen(text, q1, "nq")) :
                  MatchesRun(re.stem, text, e1)}
        S2 == UNION {{<<e1, a>> : a \in {i \in 1..Len(re.archs) :
                          /\ StartsWith(text, e1 + Len(re.stem), re.archs[i])
                          /\ MatchesRun(re.plat, text,
                                        e1 + Len(re.stem) + Len(re.archs[i]))}} :
                     e1 \in S1}
        \* where the second [^"]+ starts
        q2(t) == t[1] + Len(re.stem) + Len(re.archs[t[2]]) + Len(re.plat)
        S4 == UNION {{<<t[1], t[2], x[1], x[2]>> :
                          x \in {y \in ((q2(t) + 1)..(q2(t) + RunLen(text, q2(t), "nq")))
                                       \X (1..Len(re.markers)) :
                                    /\ StartsWith(text, y[1], re.markers[y[2]])
                                    /\ MatchesRun(re.ext \o re.frag, text,
                                                  y[1] + Len(re.markers[y[2]]))}} :
                     t \in S2}
        \* where .* starts
        q3(t) == t[3] + Len(re.markers[t[4]]) + Len(re.ext) + Len(re.frag)
    IN IF ~MatchesRun(re.open, text, pos) THEN {}
       ELSE UNION {{<<t[1], t[2], t[3], t[4], e3>> :
                        e3 \in {e \in q3(t)..(q3(t) + RunLen(text, q3(t), "dot")) :
                                   MatchesRun(re.close, text, e)}} :
                   t \in S4}

\* The backtracking matcher of the re module: of the ways the pattern matches at pos,
\* the first in priority order (a greedy repetition takes the longest first, an
\* alternation its alternatives left to right, the earlier choice point deciding first).
\* NoMatch, or <<position after group 1, position after the match>>.
MatchFrom(re, text, pos) ==
    LET ways == Ways(re, text, pos)
        Key(w) == <<0 - w[1], w[2], 0 - w[3], w[4], 0 - w[5]>>
    IN IF ways = {} THEN NoMatch
       ELSE LET w == CHOOSE x \in ways : \A y \in ways : LexLeq(Key(x), Key(y))
            IN <<w[3] + Len(re.markers[w[4]]) + Len(re.ext), w[5] + Len(re.close)>>

\* line 34: link_re.findall(text): group 1 of every match, scanning left to right,
\* the next search starting where the last match ended
RECURSIVE findall(_, _, _)
findall(re, text, pos) ==
    LET starts == {p \in pos..Len(text) : MatchFrom(re, text, p) # NoMatch}
    IN IF starts = {} THEN <<>>
       ELSE LET p == CHOOSE q \in starts : \A j \in starts : q <= j
                r == MatchFrom(re, text, p)
            IN <<SubSeq(text, p + Len(re.open), r[1] - 1)>>
               \o findall(re, text, IF r[2] > p THEN r[2] ELSE p + 1)

\* posixpath.join of two parts
PathJoin2(a, b) ==
    IF Len(b) > 0 /\ b[1] = "/" THEN b
    ELSE IF Len(a) = 0 \/ a[Len(a)] = "/" THEN a \o b
    ELSE a \o <<"/">> \o b

\* line 35: os.path.join(PIP_URL_BASE, package_name, match)
os_path_join(a, b, c) == PathJoin2(PathJoin2(a, b), c)

(* The inputs: package specs, platforms, index pages. *)
Coverage == <<"c", "o", "v", "e", "r", "a", "g", "e">>
PackageSpecs ==
    { Coverage,
      Coverage \o <<"=", "=", "4", ".", "3", ".", "4">> }
Platforms ==
    { <<"l", "i", "n", "u", "x">>, <<"d", "a", "r", "w", "i", "n">>,
      <<"w", "i", "n", "3", "2">> }

\* the href of a wheel file, from its parts
Href(h) ==
    h.prefix \o h.name \o <<"-">> \o h.version \o <<"-">> \o h.abi \o <<"-">>
    \o h.plat \o h.arch \o <<".", "w", "h", "l">> \o h.frag

\* a wheel's file name, without directory and fragment
FileName(h) == Href([h EXCEPT !.prefix = <<>>, !.frag = <<>>])

\* a wheel of the example: relative directory, cp35, manylinux1, x86_64, with a fragment
GoodWheel ==
    [prefix |-> <<".", ".", "/">>,
     name |-> Coverage,
     version |-> <<"4", ".", "3", ".", "4">>,
     abi |-> PIP_ARCHITECTURES[3],
     plat |-> <<"m", "a", "n", "y", "l", "i", "n", "u", "x", "1">>,
     arch |-> <<"_", "x", "8", "6", "_", "6", "4">>,
     frag |-> <<"#", "s", "h", "a", "2", "5", "6", "=", "a", "b">>]

\* the wheels an index page may list: the example's and its one-part variations
Wheels ==
    { GoodWheel,
      [GoodWheel EXCEPT !.prefix = <<>>],
      [GoodWheel EXCEPT !.version = <<"4", ".", "4">>],
      [GoodWheel EXCEPT !.version = <<>>],
      [GoodWheel EXCEPT !.abi = <<"c", "p", "3", "7", "-", "c", "p", "3", "7", "m">>],
      [GoodWheel EXCEPT !.plat = <<"m", "a", "c", "o", "s", "x">>,
                        !.arch = <<"_", "1", "0", "_", "1", "0", "_", "i", "n", "t", "e", "l">>],
      [GoodWheel EXCEPT !.arch = <<"_", "i", "6", "8", "6">>],
      [GoodWheel EXCEPT !.frag = <<>>] }

\* <a href="HREF">x</a>
Anchor(h) ==
    <<"<", "a", " ", "h", "r", "e", "f", "=", "\"">> \o Href(h)
    \o <<"\"", ">", "x", "<", "/", "a", ">">>

\* the anchors of ws, each followed by sep
RECURSIVE PageOf(_, _)
PageOf(ws, sep) ==
    IF ws = <<>> THEN <<>> ELSE Anchor(Head(ws)) \o sep \o PageOf(Tail(ws), sep)

\* index pages: up to MaxAnchors anchors, one per line or all on one line
Listings == UNION {[1..n -> Wheels] : n \in 0..MaxAnchors}
Pages == {PageOf(ws, sep) : ws \in Listings, sep \in {<<"\n">>, <<" ">>}}

\* what the network can answer to the GET of line 26
NetAnswers ==
    {[ok |-> FALSE, status |-> 0, text |-> <<>>]}
    \cup {[ok |-> TRUE, status |-> 200, text |-> p] : p \in Pages}
    \cup {[ok |-> TRUE, status |-> s, text |-> <<>>] : s \in {304, 404, 500}}

InitWheels ==
    /\ fw_pc = "start"
    /\ package_spec \in PackageSpecs
    /\ platform \in Platforms
    /\ net \in NetAnswers
    /\ response = <<>>
    /\ matches = <<>>
    /\ idx = 1
    /\ yielded = <<>>
    /\ fw_error = "none"

package_name == Partition(package_spec).name
version == Partition(package_spec).version

\* lines 25-26: response = requests.get(PIP_URL_BASE + package_name)
FwGet ==
    /\ fw_pc = "start"
    /\ IF net.ok
       THEN /\ response' = <<[status |-> net.status, text |-> net.text]>>
            /\ fw_pc' = "raise_for_status"
            /\ UNCHANGED fw_error
       ELSE /\ fw_error' = "ConnectionError"
            /\ fw_pc' = "done"
            /\ UNCHANGED response
    /\ UNCHANGED run_vars
    /\ UNCHANGED <<package_spec, platform, net, matches, idx, yielded>>

\* line 27: response.raise_for_status() raises for a 4xx or 5xx status
FwRaiseForStatusMutSkipped ==
    /\ fw_pc = "raise_for_status"
    /\ fw_pc' = "findall"
    /\ UNCHANGED run_vars
    /\ UNCHANGED <<package_spec, platform, net, response, matches, idx, yielded, fw_error>>

FwRaiseForStatus ==
    /\ fw_pc = "raise_for_status"
    /\ IF response[1].status >= 400 /\ response[1].status < 600
       THEN fw_error' = "HTTPError" /\ fw_pc' = "done"
       ELSE fw_pc' = "findall" /\ UNCHANGED fw_error
    /\ UNCHANGED run_vars
    /\ UNCHANGED <<package_spec, platform, net, response, matches, idx, yielded>>

\* lines 31-34: build link_re and scan the page
FwFindAll ==
    /\ fw_pc = "findall"
    /\ LET archs == PIP_ARCHITECTURES
           plat == PIP_PLATFORMS_get(platform, platform)
       IN \E re \in {link_re(package_name, version, archs, plat)} :
              \E text \in {response[1].text} : matches' = findall(re, text, 1)
    /\ idx' = 1
    /\ fw_pc' = "yield"
    /\ UNCHANGED run_vars
    /\ UNCHANGED <<package_spec, platform, net, response, yielded, fw_error>>

\* lines 34-35: yield the URL of the next match
FwYield ==
    /\ fw_pc = "yield"
    /\ idx <= Len(matches)
    /\ yielded' = Append(yielded, os_path_join(PIP_URL_BASE, package_name, matches[idx]))
    /\ idx' = idx + 1
    /\ UNCHANGED run_vars
    /\ UNCHANGED <<fw_pc, package_spec, platform, net, response, matches, fw_error>>

\* line 34: no match is left, the generator ends
FwStop ==
    /\ fw_pc = "yield"
    /\ idx > Len(matches)
    /\ fw_pc' = "done"
    /\ UNCHANGED run_vars
    /\ UNCHANGED <<package_spec, platform, net, response, matches, idx, yielded, fw_error>>

NextWheels == FwGet \/ FwRaiseForStatus \/ FwFindAll \/ FwYield \/ FwStop

(***************************************************************************)
(* The specifications: one program runs, the other is not started.         *)
(***************************************************************************)
IdleRun ==
    /\ pc = "idle"
    /\ ZIP_SAFE = TRUE
    /\ MODULE_DIR = ""
    /\ environ = {}
    /\ sys_path = <<Root>>
    /\ meta_path = DefaultMetaPath
    /\ fuse = "none"
    /\ tmpdir = "none"
    /\ profiler = "off"
    /\ exc = "none"
    /\ result = <<>>
    /\ exit_code = <<>>
    /\ outcome = "Running"
    /\ entryCalls = <<>>
    /\ trace = <<>>
    /\ sys_path0 = sys_path

IdleWheels ==
    /\ fw_pc = "idle"
    /\ package_spec = <<>>
    /\ platform = <<>>
    /\ net = [ok |-> FALSE, status |-> 0, text |-> <<>>]
    /\ response = <<>>
    /\ matches = <<>>
    /\ idx = 1
    /\ yielded = <<>>
    /\ fw_error = "none"

Init == InitRun /\ IdleWheels
Next == NextRun
Spec == Init /\ [][Next]_vars

InitW == InitWheels /\ IdleRun
NextW == NextWheels
SpecWheels == InitW /\ [][NextW]_vars

(***************************************************************************)
(* Properties of pex_run.py, checked under Spec.                           *)
(***************************************************************************)
Range(s) == {s[i] : i \in DOMAIN s}
Called(e) == e \in Range(trace)
Bootstrap == Join(Root, ".bootstrap")

\* C1: for an archive that is not zip-safe, whenever setup_fuse fails, for any
\* reason, the run falls back to Exploded mode and the entry point is invoked
\* there; the process never ends without that unless the fallback itself (the
\* explode, the hook installation) failed.
C1_MountFailureFallsBack ==
    (~ZIP_SAFE /\ Called("setup_fuse_failed") /\ pc = "done")
        => \/ \E i \in DOMAIN entryCalls : entryCalls[i].mode = "Exploded"
           \/ Called("explode_zip_failed")
           \/ Called("add_module_dir_failed")

\* C2: for a zip-safe archive neither setup_fuse nor explode_zip is ever called, no
\* mount handle and no temp directory is ever acquired, and the entry point runs
\* in InPlace mode.
C2_ZipSafeInPlace ==
    ZIP_SAFE =>
        /\ fuse = "none" /\ tmpdir = "none"
        /\ ~Called("setup_fuse") /\ ~Called("setup_fuse_failed")
        /\ ~Called("explode_zip") /\ ~Called("explode_zip_failed")
        /\ \A i \in DOMAIN entryCalls : entryCalls[i].mode = "InPlace"

\* a zip-safe archive whose entry point has run and whose process has ended
C2_Witness ==
    /\ ZIP_SAFE /\ pc = "done" /\ Len(entryCalls) = 1
    /\ entryCalls[1].mode = "InPlace"

\* C3: once run() has returned or raised and the process propagates the result or
\* the error, no mount handle and no temp directory acquired during the run is
\* still held.
C3_ResourcesReleased ==
    pc \in {"sys_exit", "uncaught", "done"} => fuse # "held" /\ tmpdir # "held"

\* C4: an entry point that raises, in any mode and with any error, ends the run:
\* it is the last invocation, its error propagates out of run(), and the process
\* ends Failed with a non-zero code.
C4_EntryFailureFatal ==
    \A i \in DOMAIN entryCalls :
        entryCalls[i].out.kind = "raise" =>
            /\ i = Len(entryCalls)
            /\ exc = entryCalls[i].out.err
            /\ pc \in {"with_exit", "run_exit", "uncaught", "done"}
            /\ pc = "done" => outcome = "Failed" /\ exit_code # <<0>>

\* C5: when the entry point returns r, in any mode and with or without the
\* profiling scope, no later invocation follows, run() returns r and the process
\* exits with exactly r.
C5_ResultPropagated ==
    \A i \in DOMAIN entryCalls :
        entryCalls[i].out.kind = "return" =>
            /\ i = Len(entryCalls)
            /\ result = <<entryCalls[i].out.code>>
            /\ exc = "none"
            /\ pc = "done" => outcome = "Completed" /\ exit_code = <<entryCalls[i].out.code>>

\* a process that has exited with the largest result, returned by the entry point
\* in Exploded mode inside the profiling scope
C5_Witness ==
    /\ pc = "done" /\ profiler = "closed"
    /\ Len(entryCalls) > 0
    /\ entryCalls[Len(entryCalls)].mode = "Exploded"
    /\ entryCalls[Len(entryCalls)].out = [kind |-> "return", code |-> MaxResult, err |-> "none"]
    /\ exit_code = <<MaxResult>>

\* C6: at every invocation of the entry point, in every mode, SoImport is in
\* sys.meta_path, and so is ModuleDirImport when MODULE_DIR is configured.
C6_HooksInstalledAtEntry ==
    \A i \in DOMAIN entryCalls :
        /\ "SoImport" \in Range(entryCalls[i].hooks)
        /\ MODULE_DIR # "" => "ModuleDirImport" \in Range(entryCalls[i].hooks)

\* C7 as stated: at every invocation of the entry point sys.path[0] is the root and
\* sys.path[1] is root/.bootstrap, also when MODULE_DIR is not empty.
C7_BootstrapSecond ==
    \A i \in DOMAIN entryCalls :
        /\ entryCalls[i].path[1] = Root
        /\ entryCalls[i].path[2] = Bootstrap

\* C7 as amended: at every invocation of the entry point sys.path[0] is the root;
\* root/.bootstrap is sys.path[1], except when add_module_dir_to_sys_path has
\* inserted a non-empty MODULE_DIR (Exploded and InPlace modes): then
\* root/MODULE_DIR is sys.path[1] and root/.bootstrap is sys.path[2].
C7_BootstrapAfterRoot ==
    \A i \in DOMAIN entryCalls :
        LET c == entryCalls[i]
        IN /\ c.path[1] = Root
           /\ IF c.mode # "Mounted" /\ MODULE_DIR # ""
              THEN c.path[2] = Join(Root, MODULE_DIR) /\ c.path[3] = Bootstrap
              ELSE c.path[2] = Bootstrap

\* the entry point invoked with a relocation applied: .bootstrap is the third entry
C7_Witness ==
    \E i \in DOMAIN entryCalls :
        /\ MODULE_DIR # ""
        /\ entryCalls[i].mode \in {"Exploded", "InPlace"}
        /\ entryCalls[i].path[2] = Join(Root, MODULE_DIR)
        /\ entryCalls[i].path[3] = Bootstrap

\* C8: the profiling scope is entered if and only if PEX_PROFILE_FILENAME is set:
\* it is active during the whole of run() exactly then, never otherwise; and once
\* run() has returned or raised, the scope has been torn down before the process
\* exits.
C8_ProfilingScope ==
    LET set == "PEX_PROFILE_FILENAME" \in environ
    IN /\ profiler # "off" => set
       /\ pc \notin {"main", "sys_exit", "uncaught", "done"} => (profiler = "active" <=> set)
       /\ pc \in {"sys_exit", "uncaught", "done"} => (profiler = "closed" <=> set)

\* a profiled process that ended because run() raised, its scope torn down
C8_Witness ==
    /\ "PEX_PROFILE_FILENAME" \in environ
    /\ pc = "done" /\ outcome = "Failed" /\ exc # "none"
    /\ profiler = "closed"

(***************************************************************************)
(* Properties of find_wheels.py, checked under SpecWheels.                 *)
(***************************************************************************)
\* the wheel satisfies the name, ABI tag, platform and architecture constraints of
\* the call
Qualifies(w) ==
    /\ w.name = package_name
    /\ w.abi \in Range(PIP_ARCHITECTURES)
    /\ w.plat = PIP_PLATFORMS_get(platform, platform)
    /\ \E m \in Range(ARCH_MARKERS) :
           Len(w.arch) > Len(m) /\ SubSeq(w.arch, Len(w.arch) - Len(m) + 1, Len(w.arch)) = m

\* <indexBase>/<name>/<filename>
CandidateUrl(w) == PIP_URL_BASE \o package_name \o <<"/">> \o FileName(w)

\* the generator has run to its end on a page that lists w alone
Resolved(w) ==
    /\ fw_pc = "done" /\ fw_error = "none"
    /\ \E sep \in {<<"\n">>, <<" ">>} : net.text = PageOf(<<w>>, sep)

\* C9: for a spec name==version, an anchor whose href is the bare file name
\* <name>-<version>-<accepted ABI tag>-<canonical platform>_<arch marker>.whl
\* followed by a fragment yields exactly one candidate,
\* <indexBase>/<name>/<filename>.
C9_BareFilenameYieldsOne ==
    \A w \in Wheels :
        (/\ version # <<>> /\ w.version = version
         /\ Qualifies(w)
         /\ w.prefix = <<>> /\ w.frag # <<>>
         /\ Resolved(w))
            => yielded = <<CandidateUrl(w)>>

\* C10: for a spec with an empty version, an anchor that satisfies the name, ABI
\* tag, platform and architecture constraints is yielded whatever the version in
\* its file name.
C10_EmptyVersionIsWildcard ==
    \A w \in Wheels :
        (/\ version = <<>>
         /\ Qualifies(w)
         /\ w.prefix # <<>> /\ w.frag # <<>>
         /\ Resolved(w))
            => Len(yielded) = 1

\* C11: the fragment after .whl is optional: an anchor whose href ends in .whl
\* with no fragment and satisfies the name, version, ABI tag, platform and
\* architecture constraints is yielded, as the same href with a fragment is.
C11_FragmentOptional ==
    \A w \in Wheels :
        (/\ version # <<>> /\ w.version = version
         /\ Qualifies(w)
         /\ w.prefix # <<>> /\ w.frag = <<>>
         /\ Resolved(w))
            => Len(yielded) = 1

\* the anchor is one the pattern of line 33 accepts when it stands alone on its line
Matching(w) ==
    /\ Qualifies(w)
    /\ w.version = version
    /\ w.prefix # <<>> /\ w.frag # <<>>

\* the URL line 35 builds for the anchor
UrlOf(w) == os_path_join(PIP_URL_BASE, package_name, w.prefix \o FileName(w))

\* the URLs of the matching anchors of ws, in the order of ws, one per anchor
RECURSIVE ExpectedUrls(_)
ExpectedUrls(ws) ==
    IF ws = <<>> THEN <<>>
    ELSE (IF Matching(Head(ws)) THEN <<UrlOf(Head(ws))>> ELSE <<>>) \o ExpectedUrls(Tail(ws))

\* C12: the candidates are the URLs of the matching anchors in page order, one per
\* matching anchor, none reordered, merged, dropped or deduplicated, whether the
\* anchors stand one per line or several on one line.
C12_DocumentOrderNoneDropped ==
    \A ws \in Listings : \A sep \in {<<"\n">>, <<" ">>} :
        (fw_pc = "done" /\ fw_error = "none" /\ net.status = 200
         /\ version # <<>>
         /\ net.text = PageOf(ws, sep))
            => yielded = ExpectedUrls(ws)

\* the response is one raise_for_status raises for
ErrorStatus == net.ok /\ net.status >= 400 /\ net.status < 600

C14_ModeFixed ==
    \A i, j \in DOMAIN entryCalls : entryCalls[i].mode = entryCalls[j].mode

\* the mode the zip-safety flag and the outcome of setup_fuse select
SelectedMode ==
    IF ZIP_SAFE THEN "InPlace"
    ELSE IF Called("setup_fuse") THEN "Mounted"
    ELSE "Exploded"

ModeEvents == {"setup_fuse", "setup_fuse_failed", "explode_zip", "explode_zip_failed"}
HookEvents == {"add_module_dir", "add_module_dir_failed", "so_import", "so_import_failed"}
Count(events) == Cardinality({i \in DOMAIN trace : trace[i] \in events})

C17_RedirectorBeforeSelector ==
    \A i, j \in DOMAIN meta_path :
        (meta_path[i] = "ModuleDirImport" /\ meta_path[j] = "SoImport") => i < j

\* both hooks are installed
C17_Witness ==
    /\ "ModuleDirImport" \in Range(meta_path)
    /\ "SoImport" \in Range(meta_path)

\* C18: the entry point is invoked at most once per process.
C18_EntryAtMostOnce == Len(entryCalls) <= 1

\* a is b with entries left out, the order kept
RECURSIVE IsSubseq(_, _)
IsSubseq(a, b) ==
    IF a = <<>> THEN TRUE
    ELSE IF b = <<>> THEN FALSE
    ELSE IF Head(a) = Head(b) THEN IsSubseq(Tail(a), Tail(b))
    ELSE IsSubseq(a, Tail(b))

\* C19: the bootstrap only inserts into sys.path: the root stays sys.path[0], the
\* entries of the start-up sys.path are all still there in their order, at most
\* two entries are added and they are root/.bootstrap and root/MODULE_DIR; with an
\* empty MODULE_DIR add_module_dir_to_sys_path changes neither sys.path nor
\* sys.meta_path.
C19_PathOnlyInserted ==
    /\ sys_path[1] = Root
    /\ IsSubseq(sys_path0, sys_path)
    /\ Len(sys_path) <= Len(sys_path0) + 2
    /\ Range(sys_path) \ Range(sys_path0) \subseteq {Bootstrap, Join(Root, MODULE_DIR)}
    /\ MODULE_DIR = "" =>
           /\ "ModuleDirImport" \notin Range(meta_path)
           /\ Called("add_module_dir") =>
                  /\ sys_path = InsertAfterFirst(sys_path0, Bootstrap)
                  /\ meta_path \in {DefaultMetaPath, Append(DefaultMetaPath, "SoImport")}

\* both entries added to a start-up path of two entries
C19_Witness ==
    /\ Len(sys_path0) = 2
    /\ sys_path = <<Root, Join(Root, MODULE_DIR), Bootstrap, sys_path0[2]>>
    /\ MODULE_DIR # "" /\ pc = "done"

====
